---- MODULE Spec2Model ----
(***************************************************************************)
(* A model of the connect4-ai engine: the bit-encoded Board (board.rs),    *)
(* its move / undo protocol, win detection, the LegalMoves iterator, the   *)
(* heuristic evaluator and the negamax search with alpha-beta pruning and  *)
(* a transposition table behind AIPlayer::decide_move (player/ai.rs).      *)
(*                                                                         *)
(* A BitBoard (u64) is modelled as the set of its set bit indices, a       *)
(* subset of 0..63: & is intersection, | is union, ^ is symmetric          *)
(* difference, shifts move the indices and drop what leaves 0..63, and +   *)
(* is binary addition with carry, modulo 2^64.                             *)
(***************************************************************************)
EXTENDS Integers, Sequences, FiniteSets, TLC

VARIABLES
    arg_board,        \* the Board decide_move is handed (board: &Board)
    board,            \* the Board: Game.board, or decide_move's local copy
    ops,              \* number of Board API calls, or is_win edits, applied so far
    bits,             \* the BitBoard handed to Board::is_win
    depth,            \* AIPlayer.depth
    ttable,           \* AIPlayer.ttable: position_code -> TTEntry
    token,            \* decide_move's token argument
    root_moves,       \* decide_move: the LegalMoves iterator of the for loop
    root_column,      \* decide_move: the for loop's column, as an Option
    best_moves,       \* decide_move: best_moves array
    len_best_moves,   \* decide_move: len_best_moves
    value_best_move,  \* decide_move: value_best_move
    root_values,      \* decide_move: the value computed for each column so far
    stack,            \* the live negamax calls, innermost first
    pc,               \* where decide_move is: "idle", "root", "search", "pick", "done";
                      \* "reply", "returned" in Game::play; "panic" after a failed assertion
    chosen,           \* the column decide_move returned, as an Option
    result            \* the winner Game::play returned, as an Option

vars == <<arg_board, board, ops, bits, depth, ttable, token, root_moves,
          root_column, best_moves, len_best_moves, value_best_move, root_values, stack, pc, chosen, result>>

searchVars == <<arg_board, depth, ttable, token, root_moves, root_column, best_moves,
                len_best_moves, value_best_move, root_values, stack, pc, chosen, result>>

---------------------------------------------------------------------------
(* Program constants (board.rs) *)

WIDTH == 7
HEIGHT == 6
BOARD_SIZE == WIDTH * HEIGHT
BITS == 64

Columns == 0 .. (WIDTH - 1)
Rows == 0 .. (HEIGHT - 1)

(* Option<T> *)
None == <<>>
Some(x) == <<x>>

---------------------------------------------------------------------------
(* u64 bit operations on sets of bit indices *)

Bit(k) == IF k < BITS THEN {k} ELSE {}
And(x, y) == x \cap y
Or(x, y) == x \cup y
Xor(x, y) == (x \ y) \cup (y \ x)
Shr(x, k) == {i - k : i \in {j \in x : j >= k}}
Shl(x, k) == {i + k : i \in {j \in x : j + k < BITS}}

RECURSIVE AddFrom(_, _, _, _)
AddFrom(x, y, i, carry) ==
    IF i = BITS THEN {}
    ELSE LET n == (IF i \in x THEN 1 ELSE 0) + (IF i \in y THEN 1 ELSE 0) + carry
         IN  (IF n % 2 = 1 THEN {i} ELSE {}) \cup AddFrom(x, y, i + 1, n \div 2)

(* x + y on u64 (wrapping at bit 64) *)
Add(x, y) == AddFrom(x, y, 0, 0)

(* BOTTOM = ((1 << 49) - 1) / ((1 << 7) - 1): one bit at the base of each column *)
BOTTOM == {(HEIGHT + 1) * c : c \in Columns}
TOP == Shl(BOTTOM, HEIGHT)

---------------------------------------------------------------------------
(* Token (player.rs) *)

Player1 == "Player1"
Player2 == "Player2"

(* Token::opponent is called by ai.rs and is not in the source given: the  *)
(* other player's token.                                                    *)
opponent(t) == IF t = Player1 THEN Player2 ELSE Player1

---------------------------------------------------------------------------
(* Board (board.rs) *)

new ==
    [ moves   |-> [i \in 0 .. (BOARD_SIZE - 1) |-> 0],
      heights |-> [i \in Columns |-> (HEIGHT + 1) * i],
      players |-> [i \in 0 .. 1 |-> {}],
      ply     |-> 0 ]

current_player(b) == IF b.ply % 2 = 0 THEN Player1 ELSE Player2

token_at(b, row, column) ==
    LET mask == Bit(row + column * (HEIGHT + 1))
    IN  IF And(b.players[0], mask) # {} THEN Some(Player1)
        ELSE IF And(b.players[1], mask) # {} THEN Some(Player2)
        ELSE None

is_legal_board(bb) == And(bb, TOP) = {}

(* has_space testing the board as it is, without the bit the move would set *)
has_space_NoNewBit(b, column) ==
    is_legal_board(b.players[b.ply % 2])

(* has_space asserts column < WIDTH; it is only applied to such columns *)
has_space(b, column) ==
    is_legal_board(Or(b.players[b.ply % 2], Bit(b.heights[column])))

is_legal(b, column) == column < WIDTH /\ has_space(b, column)

(* make_move that forgets to raise the column's height *)
make_move_NoHeight(b, column) ==
    [ players |-> [b.players EXCEPT ![b.ply % 2] = Xor(@, Bit(b.heights[column]))],
      heights |-> b.heights,
      moves   |-> [b.moves EXCEPT ![b.ply] = column],
      ply     |-> b.ply + 1 ]

(* make_move past its assertion has_space(column) *)
make_move(b, column) ==
    [ players |-> [b.players EXCEPT ![b.ply % 2] = Xor(@, Bit(b.heights[column]))],
      heights |-> [b.heights EXCEPT ![column] = @ + 1],
      moves   |-> [b.moves EXCEPT ![b.ply] = column],
      ply     |-> b.ply + 1 ]

(* a call of make_move whose assertion comes after the board is changed *)
make_move_call_AssertLast(b, column) ==
    IF column >= WIDTH THEN [board |-> b, panic |-> TRUE]
    ELSE [board |-> make_move(b, column), panic |-> ~has_space(b, column)]

(* A call of make_move, assertion included: the board it leaves and        *)
(* whether it panicked.  The assertion of has_space (column < WIDTH) and   *)
(* then the one of make_move (has_space) come before any assignment.       *)
make_move_call(b, column) ==
    IF column < WIDTH /\ has_space(b, column)
    THEN [board |-> make_move(b, column), panic |-> FALSE]
    ELSE [board |-> b, panic |-> TRUE]

(* undo_move that forgets to lower the column's height *)
undo_move_KeepHeight(b) ==
    LET ply == b.ply - 1
        column == b.moves[ply]
    IN  [ players |-> [b.players EXCEPT ![ply % 2] = Xor(@, Bit(b.heights[column] - 1))],
          heights |-> b.heights,
          moves   |-> b.moves,
          ply     |-> ply ]

(* undo_move that picks the player from the ply before it is decremented *)
undo_move_WrongPlayer(b) ==
    LET ply == b.ply - 1
        column == b.moves[ply]
        heights == [b.heights EXCEPT ![column] = @ - 1]
    IN  [ players |-> [b.players EXCEPT ![b.ply % 2] = Xor(@, Bit(heights[column]))],
          heights |-> heights,
          moves   |-> b.moves,
          ply     |-> ply ]

undo_move(b) ==
    LET ply == b.ply - 1
        column == b.moves[ply]
        heights == [b.heights EXCEPT ![column] = @ - 1]
    IN  [ players |-> [b.players EXCEPT ![ply % 2] = Xor(@, Bit(heights[column]))],
          heights |-> heights,
          moves   |-> b.moves,
          ply     |-> ply ]

(* is_win whose second reduction shifts by one step instead of two, so    *)
(* that three in line pass for four                                        *)
is_win_Three(bb) ==
    LET h0  == And(bb, Shr(bb, HEIGHT + 1))
        v0  == And(bb, Shr(bb, 1))
        d10 == And(bb, Shr(bb, HEIGHT))
        d20 == And(bb, Shr(bb, HEIGHT + 2))
        h   == And(h0, Shr(h0, HEIGHT + 1))
        v   == And(v0, Shr(v0, 1))
        d1  == And(d10, Shr(d10, HEIGHT))
        d2  == And(d20, Shr(d20, HEIGHT + 2))
    IN  Or(Or(h, v), Or(d1, d2)) # {}

is_win(bb) ==
    LET h0  == And(bb, Shr(bb, HEIGHT + 1))
        v0  == And(bb, Shr(bb, 1))
        d10 == And(bb, Shr(bb, HEIGHT))
        d20 == And(bb, Shr(bb, HEIGHT + 2))
        h   == And(h0, Shr(h0, 2 * (HEIGHT + 1)))
        v   == And(v0, Shr(v0, 2))
        d1  == And(d10, Shr(d10, 2 * HEIGHT))
        d2  == And(d20, Shr(d20, 2 * (HEIGHT + 2)))
    IN  Or(Or(h, v), Or(d1, d2)) # {}

(* winner that looks at the first player's cells only *)
winner_FirstOnly(b) ==
    IF is_win(b.players[0]) THEN Some(Player1) ELSE None

winner(b) ==
    IF is_win(b.players[0]) THEN Some(Player1)
    ELSE IF is_win(b.players[1]) THEN Some(Player2)
    ELSE None

(* position_code combining the bit-sets with | where the code has + *)
position_code_Or(b) ==
    Or(Or(Or(b.players[b.ply % 2], b.players[0]), b.players[1]), BOTTOM)

position_code(b) ==
    Add(Add(Add(b.players[b.ply % 2], b.players[0]), b.players[1]), BOTTOM)

(* LegalMoves: the iterator legal_moves() returns, a snapshot of the board *)
legal_moves(b) ==
    [ board |-> b.players[b.ply % 2], heights |-> b.heights, column |-> 0 ]

(* LegalMoves::next that tests the cell below the one a move would fill *)
RECURSIVE LegalMoves_next_CellBelow(_)
LegalMoves_next_CellBelow(lm) ==
    IF lm.column < WIDTH
    THEN LET column == lm.column
             adv == [lm EXCEPT !.column = column + 1]
         IN  IF is_legal_board(Or(lm.board, Bit(lm.heights[column] - 1)))
             THEN [item |-> Some(column), iter |-> adv]
             ELSE LegalMoves_next_CellBelow(adv)
    ELSE [item |-> None, iter |-> lm]

(* LegalMoves::next that yields the next column without testing it *)
LegalMoves_next_Untested(lm) ==
    IF lm.column < WIDTH
    THEN [item |-> Some(lm.column), iter |-> [lm EXCEPT !.column = lm.column + 1]]
    ELSE [item |-> None, iter |-> lm]

(* LegalMoves::next: the item it yields and the iterator it leaves *)
RECURSIVE LegalMoves_next(_)
LegalMoves_next(lm) ==
    IF lm.column < WIDTH
    THEN LET column == lm.column
             adv == [lm EXCEPT !.column = column + 1]
         IN  IF is_legal_board(Or(lm.board, Bit(lm.heights[column])))
             THEN [item |-> Some(column), iter |-> adv]
             ELSE LegalMoves_next(adv)
    ELSE [item |-> None, iter |-> lm]

(* every item the iterator yields, in order *)
RECURSIVE LegalMoves_collect(_)
LegalMoves_collect(lm) ==
    LET r == LegalMoves_next(lm)
    IN  IF r.item = None THEN <<>> ELSE r.item \o LegalMoves_collect(r.iter)

(* Game::play can make the moves of seq in order from b: each column has  *)
(* space when it is played and no one has won before it is                 *)
RECURSIVE Playable(_, _)
Playable(b, seq) ==
    \/ seq = <<>>
    \/ /\ seq # <<>>
       /\ winner(b) = None
       /\ has_space(b, Head(seq))
       /\ Playable(make_move(b, Head(seq)), Tail(seq))

(* the board after the moves of seq are made, in order, on b *)
RECURSIVE Replay(_, _)
Replay(b, seq) ==
    IF seq = <<>> THEN b ELSE Replay(make_move(b, Head(seq)), Tail(seq))

---------------------------------------------------------------------------
(* Score = i32 (ai.rs) *)

Score_MAX == 2147483647
Score_MIN == -Score_MAX - 1

saturating_neg(x) == IF x = Score_MIN THEN Score_MAX ELSE -x

saturating_sub(x, y) ==
    IF y > 0 /\ x < Score_MIN + y THEN Score_MIN
    ELSE IF y < 0 /\ x > Score_MAX + y THEN Score_MAX
    ELSE x - y

Max(x, y) == IF x >= y THEN x ELSE y
Min(x, y) == IF x <= y THEN x ELSE y

---------------------------------------------------------------------------
(* Heuristic evaluator (ai.rs) *)

WIN == 10000

DIRECTION == << <<1, 0>>, <<1, 1>>, <<0, 1>>, <<-1, 1>> >>

(* the loop of get_length from cell (row, column), with its two counters *)
RECURSIVE get_length_loop(_, _, _, _, _, _, _)
get_length_loop(b, row, column, direction, side, current, possible) ==
    LET r == row + direction[1]
        c == column + direction[2]
    IN  IF ~(r \in Rows /\ c \in Columns) THEN <<current, possible>>
        ELSE LET t == token_at(b, r, c)
             IN  IF t = Some(side)
                 THEN get_length_loop(b, r, c, direction, side, current + 1, possible + 1)
                 ELSE IF t # None THEN <<current, possible>>
                 ELSE get_length_loop(b, r, c, direction, side, current, possible + 1)

get_length(b, pos, direction, side) ==
    get_length_loop(b, pos[1], pos[2], direction, side, 0, 0)

(* the score of a direction added whoever owns the cell *)
direction_score_Unsigned(b, row, column, t, d, side) ==
    LET forward  == get_length(b, <<row, column>>, d, t)
        backward == get_length(b, <<row, column>>, <<-d[1], -d[2]>>, t)
        current_len  == forward[1] + backward[1] + 1
        possible_len == forward[2] + backward[2] + 1
    IN  IF possible_len >= 4 THEN 10 * current_len ELSE 0

(* what one direction through an occupied cell adds to total_score *)
direction_score(b, row, column, t, d, side) ==
    LET forward  == get_length(b, <<row, column>>, d, t)
        backward == get_length(b, <<row, column>>, <<-d[1], -d[2]>>, t)
        current_len  == forward[1] + backward[1] + 1
        possible_len == forward[2] + backward[2] + 1
    IN  IF possible_len >= 4
        THEN (IF side = t THEN 10 * current_len ELSE -(10 * current_len))
        ELSE 0

cell_score(b, row, column, side) ==
    LET t == token_at(b, row, column)
    IN  IF t = None THEN 0
        ELSE direction_score(b, row, column, t[1], DIRECTION[1], side)
           + direction_score(b, row, column, t[1], DIRECTION[2], side)
           + direction_score(b, row, column, t[1], DIRECTION[3], side)
           + direction_score(b, row, column, t[1], DIRECTION[4], side)

(* the two nested loops over the cells, cell k = column * HEIGHT + row *)
RECURSIVE total_score_from(_, _, _)
total_score_from(b, side, k) ==
    IF k = BOARD_SIZE THEN 0
    ELSE cell_score(b, k % HEIGHT, k \div HEIGHT, side) + total_score_from(b, side, k + 1)

(* heuristic_value without the override for a won board *)
heuristic_value_NoWin(b, side, win, is_full) ==
    IF is_full THEN 0 ELSE total_score_from(b, side, 0)

heuristic_value(b, side, win, is_full) ==
    IF win # None THEN (IF win[1] = side THEN WIN ELSE -WIN)
    ELSE IF is_full THEN 0
    ELSE total_score_from(b, side, 0)

---------------------------------------------------------------------------
(* Bounds of the exploration *)

\* Board API calls (make_move, undo_move) applied after the opening
MaxOps == 3

(* A drawn game: 42 moves, no four in line at any point *)
DrawGame ==
    << 4, 3, 6, 0, 1, 4, 5, 5, 1, 1, 5, 0, 1, 6, 0, 1, 5, 5, 1, 0, 4,
       6, 3, 2, 6, 6, 0, 4, 6, 5, 2, 0, 4, 2, 4, 2, 2, 2, 3, 3, 3, 3 >>

(* Move sequences played from Board::new() before the exploration starts *)
Openings ==
    { <<>>,
      <<0, 0, 0, 0, 0, 0>>,
      <<0, 0, 1, 1, 2, 2>>,
      SubSeq(DrawGame, 1, 32),
      DrawGame }

EmptyTable == [k \in {} |-> 0]

(* decide_move is not running *)
SearchIdle ==
    /\ arg_board = new
    /\ depth = 0
    /\ ttable = EmptyTable
    /\ token = Player1
    /\ root_moves = legal_moves(new)
    /\ root_column = None
    /\ best_moves = [i \in Columns |-> 0]
    /\ len_best_moves = 0
    /\ value_best_move = Score_MIN
    /\ root_values = EmptyTable
    /\ stack = <<>>
    /\ pc = "idle"
    /\ chosen = None
    /\ result = None

---------------------------------------------------------------------------
(* Spec: the Board driven through its API, as Game::play and the search do *)

Init ==
    /\ board \in {Replay(new, o) : o \in {x \in Openings : Playable(new, x)}}
    /\ ops = 0
    /\ bits = {}
    /\ SearchIdle

(* make_move(column): the move is made, or the assertion fails and the    *)
(* caller panics with the board as it was                                  *)
MakeMove(column) ==
    /\ pc = "idle"
    /\ ops < MaxOps
    /\ LET r == make_move_call(board, column)
       IN  /\ board' = r.board
           /\ pc' = IF r.panic THEN "panic" ELSE pc
    /\ ops' = ops + 1
    /\ UNCHANGED <<bits, arg_board, depth, ttable, token, root_moves, root_column,
                   best_moves, len_best_moves, value_best_move, root_values, stack,
                   chosen, result>>

UndoMove ==
    /\ pc = "idle"
    /\ ops < MaxOps
    /\ board.ply > 0
    /\ board' = undo_move(board)
    /\ ops' = ops + 1
    /\ UNCHANGED <<bits, searchVars>>

Next ==
    \/ \E column \in Columns : MakeMove(column)
    \/ UndoMove

Spec == Init /\ [][Next]_vars

---------------------------------------------------------------------------
(* Properties of the Board, stated for Spec *)

Occupied(b) == Or(b.players[0], b.players[1])

(* the bit positions of column c, guard row included *)
ColumnBits(c) == {c * (HEIGHT + 1) + r : r \in 0 .. HEIGHT}

(* the number of pieces in column c, counted from the bit-sets *)
Pieces(b, c) == Cardinality(And(Occupied(b), ColumnBits(c)))

(* C1, as claimed: for every column with space, make_move then undo_move   *)
(* gives back a Board equal to the one before in every field the derived   *)
(* equality compares: moves, heights, players and ply.                     *)
C1_RoundTripExact ==
    \A column \in Columns :
        has_space(board, column) =>
            undo_move(make_move(board, column)) = board

(* C1, amended: make_move then undo_move restores players, heights, ply    *)
(* and every entry of moves except moves[ply], which holds the column of   *)
(* the undone move.                                                        *)
C1_RoundTripLive ==
    \A column \in Columns :
        has_space(board, column) =>
            LET after == undo_move(make_move(board, column))
            IN  /\ after.players = board.players
                /\ after.heights = board.heights
                /\ after.ply = board.ply
                /\ \A i \in 0 .. (BOARD_SIZE - 1) :
                       after.moves[i] = (IF i = board.ply THEN column ELSE board.moves[i])

(* a board some moves into the game on which a round trip changes the      *)
(* bit-sets on the way and leaves a different moves array behind           *)
C1_Witness ==
    /\ ops > 0
    /\ board.ply >= 2
    /\ \E column \in Columns :
           /\ has_space(board, column)
           /\ make_move(board, column).players # board.players
           /\ undo_move(make_move(board, column)).moves # board.moves
           /\ undo_move(make_move(board, column)).players = board.players

(* C4: the two players' bit-sets never share a bit. *)
C4_Disjoint == And(board.players[0], board.players[1]) = {}

(* both players hold cells, after a make_move and an undo_move *)
C4_Witness ==
    /\ ops >= 2
    /\ board.players[0] # {}
    /\ board.players[1] # {}
    /\ board.moves[board.ply] # 0

(* C5: heights[c] is the base of column c plus the number of its occupied  *)
(* cells, and the occupied cells of column c are exactly the bits from its *)
(* base up to heights[c] - 1.                                              *)
C5_Heights ==
    \A c \in Columns :
        /\ board.heights[c] = c * (HEIGHT + 1) + Pieces(board, c)
        /\ And(Occupied(board), ColumnBits(c))
               = (c * (HEIGHT + 1)) .. (board.heights[c] - 1)

(* a column holding several pieces next to an empty one, after API calls *)
C5_Witness ==
    /\ ops >= 2
    /\ \E c, e \in Columns :
           /\ Pieces(board, c) >= 2
           /\ Pieces(board, e) = 0
           /\ board.heights[c] = c * (HEIGHT + 1) + Pieces(board, c)

(* C6: no player's bit-set has a bit in the guard row. *)
C6_GuardRowClear == And(Occupied(board), TOP) = {}

(* a column filled to its top by a make_move *)
C6_Witness ==
    /\ ops >= 1
    /\ \E c \in Columns :
           /\ Pieces(board, c) = HEIGHT
           /\ ~has_space(board, c)
           /\ board.moves[board.ply - 1] = c

IsIncreasing(s) == \A i \in 1 .. (Len(s) - 1) : s[i] < s[i + 1]

Range(s) == {s[i] : i \in 1 .. Len(s)}

(* C8: legal_moves() yields, in strictly increasing order, exactly the     *)
(* columns holding fewer than HEIGHT pieces, which are the columns with    *)
(* has_space and is_legal; it yields nothing iff every column is full.     *)
C8_LegalMoves ==
    LET yielded == LegalMoves_collect(legal_moves(board))
    IN  /\ IsIncreasing(yielded)
        /\ Range(yielded) = {c \in Columns : Pieces(board, c) < HEIGHT}
        /\ Range(yielded) = {c \in Columns : has_space(board, c)}
        /\ Range(yielded) = {c \in Columns : is_legal(board, c)}
        /\ (yielded = <<>>) <=> (\A c \in Columns : Pieces(board, c) = HEIGHT)

(* one column full and reported so, the others legal and all yielded *)
C8_Witness ==
    /\ ops >= 1
    /\ \E c \in Columns :
           /\ Pieces(board, c) = HEIGHT
           /\ ~has_space(board, c)
           /\ ~is_legal(board, c)
           /\ Range(LegalMoves_collect(legal_moves(board))) = Columns \ {c}

IsFull(b) == LegalMoves_next(legal_moves(b)).item = None

(* C10: on a non-terminal board the heuristic from Player1's side is the   *)
(* negation of the heuristic from Player2's side.                          *)
C10_ZeroSum ==
    (winner(board) = None /\ ~IsFull(board)) =>
        heuristic_value(board, Player1, None, FALSE)
            = -heuristic_value(board, Player2, None, FALSE)

(* a non-terminal board both players have pieces on, valued non-zero *)
C10_Witness ==
    /\ ops >= 1
    /\ winner(board) = None
    /\ ~IsFull(board)
    /\ board.players[0] # {}
    /\ board.players[1] # {}
    /\ heuristic_value(board, Player1, None, FALSE) > 0
    /\ heuristic_value(board, Player2, None, FALSE) < 0

---------------------------------------------------------------------------
(* SpecWin: bit-sets handed to Board::is_win *)

\* cells set or cleared after the initial bit-set is drawn
MaxEdits == 1

(* the bits of the playable cells: the 49 board bits less the guard row *)
Cells == (0 .. (WIDTH * (HEIGHT + 1) - 1)) \ TOP

(* the four shift distances of is_win: vertical, and the three that step   *)
(* to the next column                                                      *)
Steps == {1, HEIGHT, HEIGHT + 1, HEIGHT + 2}

(* Four bits spaced by one of the shift distances from any board bit, less *)
(* the guard-row bits among them: every line of four cells, and every run  *)
(* that would wrap from one column into the next.  With them, the cells of *)
(* each player at the end of the drawn game.                               *)
WinInputs ==
    {And({start + k * step : k \in 0 .. 3}, Cells) :
        start \in 0 .. (WIDTH * (HEIGHT + 1) - 1), step \in Steps}
    \cup {Replay(new, DrawGame).players[i] : i \in 0 .. 1}

InitWin ==
    /\ bits \in WinInputs
    /\ board = new
    /\ ops = 0
    /\ SearchIdle

SetCell(i) ==
    /\ ops < MaxEdits
    /\ i \notin bits
    /\ bits' = Or(bits, Bit(i))
    /\ ops' = ops + 1
    /\ UNCHANGED <<board, searchVars>>

ClearCell(i) ==
    /\ ops < MaxEdits
    /\ i \in bits
    /\ bits' = Xor(bits, Bit(i))
    /\ ops' = ops + 1
    /\ UNCHANGED <<board, searchVars>>

NextWin ==
    \/ \E i \in Cells : SetCell(i)
    \/ \E i \in Cells : ClearCell(i)

SpecWin == InitWin /\ [][NextWin]_vars

(* the cell at (row, column) is in the bit-set *)
CellIn(bb, row, column) ==
    row \in Rows /\ column \in Columns /\ (row + column * (HEIGHT + 1)) \in bb

(* the four cells from (row, column) along direction d *)
LineFrom(row, column, d) ==
    {<<row + k * d[1], column + k * d[2]>> : k \in 0 .. 3}

(* coordinate scan: four cells in line along a row, a column or a diagonal *)
HasLine(bb) ==
    \E row \in Rows, column \in Columns, i \in 1 .. 4 :
        \A cell \in LineFrom(row, column, DIRECTION[i]) : CellIn(bb, cell[1], cell[2])

(* C7: on a bit-set with no guard-row bit, is_win holds exactly when the   *)
(* coordinate scan finds four cells in line; a set of exactly four cells   *)
(* in line wins and stops winning when any one of them is removed.         *)
C7_WinExact ==
    And(bits, TOP) = {} =>
        /\ is_win(bits) <=> HasLine(bits)
        /\ (HasLine(bits) /\ Cardinality(bits) = 4) =>
               /\ is_win(bits)
               /\ \A i \in bits : ~is_win(Xor(bits, Bit(i)))

(* three cells left of a line of four after one was cleared: no win, while *)
(* putting the cell back wins                                              *)
C7_Witness ==
    /\ ops = 1
    /\ Cardinality(bits) = 3
    /\ ~is_win(bits)
    /\ \E i \in Cells \ bits : is_win(Or(bits, Bit(i))) /\ HasLine(Or(bits, Bit(i)))

---------------------------------------------------------------------------
(* SpecSearch: AIPlayer::decide_move and negamax (ai.rs), one step at a    *)
(* time.  stack holds one frame per live negamax call, innermost first.    *)
(* A frame carries the call's arguments and locals:                        *)
(*   depth, a, b, side      the arguments (a and b are mutable)            *)
(*   a_orig, position_code  the locals of lines 101-103                    *)
(*   moves, peeked          legal_moves: the Peekable<LegalMoves>          *)
(*   value                  the running maximum of line 133                *)
(*   at                     "entry", "loop" or "store"                     *)
(*   pos                    the board the call was entered with (history)  *)

\* largest search depth an AIPlayer is built with
MaxDepth == 4

(* plies of the drawn game played before decide_move is asked *)
RootPlies == {27, 30, 32, 34, 38}

(* 32 moves of another game, no four in line, four columns left open *)
SecondGame ==
    << 6, 4, 4, 6, 2, 2, 2, 4, 5, 5, 4, 5, 4, 1, 5, 2,
       6, 1, 1, 1, 4, 6, 1, 6, 0, 6, 0, 0, 2, 2, 5, 0 >>

(* 34 moves of a third game, no four in line, three columns left open *)
ThirdGame ==
    << 4, 3, 4, 3, 2, 4, 0, 6, 6, 4, 3, 5, 2, 1, 3, 6, 5,
       4, 5, 6, 4, 0, 1, 5, 0, 2, 6, 6, 1, 1, 0, 1, 0, 1 >>

(* 36 moves of a fourth game, no four in line: the player to move can     *)
(* complete a four in column 1, the other player one in column 5          *)
FourthGame ==
    << 3, 3, 4, 2, 2, 0, 3, 2, 5, 0, 2, 5, 1, 6, 1, 0, 6, 3,
       0, 4, 3, 6, 0, 2, 0, 2, 3, 5, 4, 4, 6, 4, 6, 4, 5, 5 >>

(* 37 moves of a fifth game, no four in line: the other player can         *)
(* complete a four in column 5, and again once column 5 is blocked         *)
FifthGame ==
    << 2, 4, 1, 0, 3, 6, 3, 6, 3, 5, 1, 1, 4, 0, 4, 2, 6, 4, 1,
       5, 4, 6, 0, 1, 0, 2, 2, 6, 6, 0, 1, 3, 4, 2, 3, 3, 2 >>

(* the games played from Board::new() before decide_move is asked *)
Roots ==
    {SubSeq(DrawGame, 1, n) : n \in RootPlies}
        \cup {SecondGame, ThirdGame, FourthGame, FifthGame}

(* TTFlag *)
Exact == "Exact"
Lowerbound == "Lowerbound"
Upperbound == "Upperbound"

(* usize::saturating_sub *)
usize_saturating_sub(x, y) == IF x >= y THEN x - y ELSE 0

(* Board::peekable and PeekableBoard::peek: call make_move, hand out the   *)
(* guard; Drop for PeekableBoard: undo the move                            *)
peekable(b, c) == make_move_call(b, c)
peek(b, c) == make_move_call(b, c)

(* a guard whose drop undoes nothing *)
drop_Nothing(b) == b

drop(b) == undo_move(b)

(* the same position: every field of Board but the moves history *)
SamePosition(x, y) ==
    /\ x.players = y.players
    /\ x.heights = y.heights
    /\ x.ply = y.ply

(* HashMap::insert *)
insert(t, k, v) == [x \in (DOMAIN t) \cup {k} |-> IF x = k THEN v ELSE t[x]]

(* lines 106-107: the entry of the table that may be used, as an Option *)
usable_entry(t, code, d) ==
    IF code \in DOMAIN t /\ t[code].depth >= d THEN Some(t[code]) ELSE None

(* a classification with the two bounds exchanged *)
tt_flag_Swapped(value, a_orig, b) ==
    IF value <= a_orig THEN Lowerbound
    ELSE IF value >= b THEN Upperbound
    ELSE Exact

(* a classification that calls every stored value exact *)
tt_flag_AlwaysExact(value, a_orig, b) == Exact

(* lines 154-160 *)
tt_flag(value, a_orig, b) ==
    IF value <= a_orig THEN Upperbound
    ELSE IF value >= b THEN Lowerbound
    ELSE Exact

(* a base case that forgets the full board *)
base_case_NoFull(d, win, is_full) == d = 0 \/ win # None

(* line 128: depth exhausted, or a terminal board *)
base_case(d, win, is_full) == d = 0 \/ (win # None \/ is_full)

(* lines 108-112: the window after a usable entry is applied *)
narrowed_a(entry, a) ==
    IF entry # None /\ entry[1].flag = Lowerbound THEN Max(a, entry[1].value) ELSE a

narrowed_b(entry, b) ==
    IF entry # None /\ entry[1].flag = Upperbound THEN Min(b, entry[1].value) ELSE b

(* the frame of a negamax call on board b, up to the table lookup *)
NewFrame(b, d, a, bb, side) ==
    [ depth |-> d, a |-> a, b |-> bb, side |-> side,
      a_orig |-> a,
      position_code |-> position_code(b),
      moves |-> legal_moves(b),
      peeked |-> None,
      value |-> Score_MIN,
      at |-> "entry",
      pos |-> b ]

(* Peekable::next: the cached item if there is one, else the iterator's *)
Peekable_next(f) ==
    IF f.peeked # None
    THEN [item |-> f.peeked[1], iter |-> f.moves]
    ELSE LegalMoves_next(f.moves)

(* a root update that counts a tie as a new best move *)
root_update_TieReplaces(best, len, best_value, value, c) ==
    LET diff == saturating_sub(best_value, value)
    IN  IF diff <= 0
        THEN [best_moves |-> [best EXCEPT ![0] = c], len_best_moves |-> 1,
              value_best_move |-> value]
        ELSE [best_moves |-> best, len_best_moves |-> len, value_best_move |-> best_value]

(* lines 55-66: decide_move's bookkeeping of the best root moves *)
root_update(best, len, best_value, value, c) ==
    LET diff == saturating_sub(best_value, value)
    IN  IF diff = 0
        THEN [best_moves |-> [best EXCEPT ![len] = c], len_best_moves |-> len + 1,
              value_best_move |-> best_value]
        ELSE IF diff < 0
        THEN [best_moves |-> [best EXCEPT ![0] = c], len_best_moves |-> 1,
              value_best_move |-> value]
        ELSE [best_moves |-> best, len_best_moves |-> len, value_best_move |-> best_value]

(* lines 135-150: the caller's loop body once the recursive call gave v *)
absorb(f, v) ==
    LET value == Max(f.value, saturating_neg(v))
        a == Max(f.a, value)
    IN  [f EXCEPT !.value = value, !.a = a,
                  !.at = IF a >= f.b THEN "store" ELSE "loop"]

InitSearch ==
    /\ arg_board \in {Replay(new, o) : o \in {x \in Roots : Playable(new, x)}}
    /\ winner(arg_board) = None
    /\ ~LegalMoves_next(legal_moves(arg_board)).item = None
    /\ depth \in 0 .. MaxDepth
    /\ ttable = EmptyTable
    /\ token = current_player(arg_board)
    /\ board = new
    /\ ops = 0
    /\ bits = {}
    /\ root_moves = legal_moves(new)
    /\ root_column = None
    /\ best_moves = [i \in Columns |-> 0]
    /\ len_best_moves = 0
    /\ value_best_move = Score_MIN
    /\ root_values = EmptyTable
    /\ stack = <<>>
    /\ pc = "idle"
    /\ chosen = None
    /\ result = None

(* lines 38-44: copy the board, clear the locals, start the loop *)
DecideBegin ==
    /\ pc = "idle"
    /\ board' = arg_board
    /\ best_moves' = [i \in Columns |-> 0]
    /\ len_best_moves' = 0
    /\ value_best_move' = Score_MIN
    /\ root_moves' = legal_moves(arg_board)
    /\ pc' = "root"
    /\ UNCHANGED <<arg_board, ops, bits, depth, ttable, token, root_column, root_values,
                   stack, chosen, result>>

(* lines 44-52: the loop yields a column; negamax is called on the board   *)
(* after the move, with the full window, for the opponent; decide_move     *)
(* panics if make_move's assertion fails                                   *)
RootCall ==
    /\ pc = "root"
    /\ LET r == LegalMoves_next(root_moves)
           m == peekable(board, r.item[1])
       IN  /\ r.item # None
           /\ root_moves' = r.iter
           /\ root_column' = r.item
           /\ board' = m.board
           /\ IF m.panic
              THEN /\ pc' = "panic"
                   /\ stack' = stack
              ELSE /\ pc' = "search"
                   /\ stack' = <<NewFrame(board', depth, Score_MIN, Score_MAX,
                                          opponent(token))>>
    /\ UNCHANGED <<arg_board, ops, bits, depth, ttable, token, best_moves,
                   len_best_moves, value_best_move, root_values, chosen, result>>

(* the loop of decide_move ends *)
RootEnd ==
    /\ pc = "root"
    /\ LegalMoves_next(root_moves).item = None
    /\ pc' = "pick"
    /\ UNCHANGED <<arg_board, board, ops, bits, depth, ttable, token, root_moves,
                   root_column, best_moves, len_best_moves, value_best_move, root_values,
                   stack, chosen, result>>

(* The innermost call returns v: its PeekableBoard is dropped, and the     *)
(* caller goes on, negamax with lines 135-150, decide_move with 53-66.     *)
Return(v) ==
    /\ board' = drop(board)
    /\ IF Tail(stack) = <<>>
       THEN LET value == saturating_neg(v)
                u == root_update(best_moves, len_best_moves, value_best_move,
                                 value, root_column[1])
            IN  /\ stack' = <<>>
                /\ best_moves' = u.best_moves
                /\ len_best_moves' = u.len_best_moves
                /\ value_best_move' = u.value_best_move
                /\ root_values' = insert(root_values, root_column[1], value)
                /\ pc' = "root"
       ELSE /\ stack' = <<absorb(stack[2], v)>> \o Tail(Tail(stack))
            /\ UNCHANGED <<best_moves, len_best_moves, value_best_move,
                           root_values, pc>>
    /\ UNCHANGED <<arg_board, ops, bits, depth, token, root_moves, root_column, chosen, result>>

(* lines 106-109: a usable Exact entry is returned at once *)
NegamaxTTExact ==
    /\ pc = "search"
    /\ Head(stack).at = "entry"
    /\ LET f == Head(stack)
           entry == usable_entry(ttable, f.position_code, f.depth)
       IN  /\ entry # None
           /\ entry[1].flag = Exact
           /\ Return(entry[1].value)
    /\ UNCHANGED ttable

(* lines 110-116: a usable bound closes the window *)
NegamaxTTCutoff ==
    /\ pc = "search"
    /\ Head(stack).at = "entry"
    /\ LET f == Head(stack)
           entry == usable_entry(ttable, f.position_code, f.depth)
       IN  /\ entry # None
           /\ entry[1].flag # Exact
           /\ narrowed_a(entry, f.a) >= narrowed_b(entry, f.b)
           /\ Return(entry[1].value)
    /\ UNCHANGED ttable

(* the lookup did not return *)
PastLookup(f) ==
    LET entry == usable_entry(ttable, f.position_code, f.depth)
    IN  IF entry = None THEN TRUE
        ELSE /\ entry[1].flag # Exact
             /\ narrowed_a(entry, f.a) < narrowed_b(entry, f.b)

(* lines 121-130: depth exhausted or terminal board: the heuristic value *)
NegamaxLeaf ==
    /\ pc = "search"
    /\ Head(stack).at = "entry"
    /\ LET f == Head(stack)
           win == winner(board)
           is_full == LegalMoves_next(f.moves).item = None
       IN  /\ PastLookup(f)
           /\ base_case(f.depth, win, is_full)
           /\ Return(heuristic_value(board, f.side, win, is_full))
    /\ UNCHANGED ttable

(* lines 106-133: the window as the lookup leaves it, the first legal move *)
(* peeked, value = Score::MIN: the loop starts                             *)
NegamaxExpand ==
    /\ pc = "search"
    /\ Head(stack).at = "entry"
    /\ LET f == Head(stack)
           entry == usable_entry(ttable, f.position_code, f.depth)
           first == LegalMoves_next(f.moves)
       IN  /\ PastLookup(f)
           /\ ~base_case(f.depth, winner(board), first.item = None)
           /\ stack' = <<[f EXCEPT !.a = narrowed_a(entry, f.a),
                                   !.b = narrowed_b(entry, f.b),
                                   !.moves = first.iter,
                                   !.peeked = Some(first.item),
                                   !.value = Score_MIN,
                                   !.at = "loop"]>> \o Tail(stack)
    /\ UNCHANGED <<arg_board, board, ops, bits, depth, ttable, token, root_moves,
                   root_column, best_moves, len_best_moves, value_best_move, root_values,
                   pc, chosen, result>>

(* lines 134-143: the loop yields a column; the recursive call on the      *)
(* board after the move, one ply less, the window negated and swapped;     *)
(* the search panics if make_move's assertion fails                        *)
NegamaxLoopCall ==
    /\ pc = "search"
    /\ Head(stack).at = "loop"
    /\ LET f == Head(stack)
           r == Peekable_next(f)
           m == peek(board, r.item[1])
       IN  /\ r.item # None
           /\ board' = m.board
           /\ IF m.panic
              THEN /\ pc' = "panic"
                   /\ stack' = stack
              ELSE /\ pc' = pc
                   /\ stack' = <<NewFrame(board', usize_saturating_sub(f.depth, 1),
                                          saturating_neg(f.b), saturating_neg(f.a),
                                          opponent(f.side)),
                                 [f EXCEPT !.moves = r.iter, !.peeked = None]>>
                               \o Tail(stack)
    /\ UNCHANGED <<arg_board, ops, bits, depth, ttable, token, root_moves, root_column,
                   best_moves, len_best_moves, value_best_move, root_values, chosen, result>>

(* the loop runs out of columns *)
NegamaxLoopEnd ==
    /\ pc = "search"
    /\ Head(stack).at = "loop"
    /\ Peekable_next(Head(stack)).item = None
    /\ stack' = <<[Head(stack) EXCEPT !.at = "store"]>> \o Tail(stack)
    /\ UNCHANGED <<arg_board, board, ops, bits, depth, ttable, token, root_moves,
                   root_column, best_moves, len_best_moves, value_best_move, root_values,
                   pc, chosen, result>>

(* lines 153-164: classify the value, store it, return it *)
NegamaxStore ==
    /\ pc = "search"
    /\ Head(stack).at = "store"
    /\ LET f == Head(stack)
           entry == [depth |-> f.depth, value |-> f.value,
                     flag |-> tt_flag(f.value, f.a_orig, f.b)]
       IN  /\ ttable' = insert(ttable, f.position_code, entry)
           /\ Return(f.value)

(* lines 69-74: one best move is returned as it is, one of several is      *)
(* drawn by rng.gen_range(0, len); with none decide_move panics            *)
DecidePick ==
    /\ pc = "pick"
    /\ IF len_best_moves = 0
       THEN /\ chosen' = None
            /\ pc' = "panic"
       ELSE /\ IF len_best_moves = 1
               THEN chosen' = Some(best_moves[0])
               ELSE \E i \in 0 .. (len_best_moves - 1) : chosen' = Some(best_moves[i])
            /\ pc' = "done"
    /\ UNCHANGED <<arg_board, board, ops, bits, depth, ttable, token, root_moves,
                   root_column, best_moves, len_best_moves, value_best_move, root_values,
                   stack, result>>

NextSearch ==
    \/ DecideBegin
    \/ RootCall
    \/ RootEnd
    \/ NegamaxTTExact
    \/ NegamaxTTCutoff
    \/ NegamaxLeaf
    \/ NegamaxExpand
    \/ NegamaxLoopCall
    \/ NegamaxLoopEnd
    \/ NegamaxStore
    \/ DecidePick

SpecSearch == InitSearch /\ [][NextSearch]_vars

---------------------------------------------------------------------------
(* Properties of the search, stated for SpecSearch *)

(* the largest member of a non-empty set of scores *)
Maximum(S) == CHOOSE v \in S : \A u \in S : u <= v

(* Full-width minimax to depth d, no pruning and no table, with negamax's  *)
(* leaf evaluation: the value of board b for side, who is to move.         *)
RECURSIVE Minimax(_, _, _)
Minimax(b, d, side) ==
    LET win == winner(b)
        is_full == IsFull(b)
    IN  IF d = 0 \/ win # None \/ is_full
        THEN heuristic_value(b, side, win, is_full)
        ELSE Maximum({saturating_neg(Minimax(make_move(b, c), d - 1, opponent(side))) :
                         c \in {x \in Columns : has_space(b, x)}})

(* C2: the value negamax returns for a root move of decide_move (full      *)
(* window, the table as the earlier root moves left it) is the full-width  *)
(* minimax value, to the same depth, of the position after that move.      *)
C2_NegamaxIsMinimax ==
    (pc = "root" /\ root_column # None) =>
        root_values[root_column[1]]
            = saturating_neg(Minimax(make_move(arg_board, root_column[1]), depth,
                                     opponent(token)))

(* a second or later root move has been searched three plies or deeper     *)
(* with entries in the table, and its value is a heuristic one             *)
C2_Witness ==
    /\ pc = "root"
    /\ root_column # None
    /\ depth >= 3
    /\ Cardinality(DOMAIN root_values) >= 2
    /\ ttable # EmptyTable
    /\ root_values[root_column[1]] \notin {-WIN, 0, WIN}

(* C3: whenever control is in a negamax call the board is the position the *)
(* call was entered with, so a call that returns leaves its caller the     *)
(* position the caller had before the move; back in decide_move the board  *)
(* is the position decide_move was handed.                                 *)
C3_Paired ==
    /\ stack # <<>> => SamePosition(board, Head(stack).pos)
    /\ pc \in {"root", "pick", "done"} => SamePosition(board, arg_board)

(* a call two or more levels down stopped by a beta cutoff with columns    *)
(* left unsearched, the board back at the position the call began with     *)
C3_Witness ==
    /\ Len(stack) >= 2
    /\ Head(stack).at = "store"
    /\ Head(stack).a >= Head(stack).b
    /\ Peekable_next(Head(stack)).item # None
    /\ ttable # EmptyTable
    /\ SamePosition(board, Head(stack).pos)

(* decide_move's last step, returning column c *)
Picks(c) ==
    /\ DecidePick
    /\ chosen' = Some(c)

(* the columns held in best_moves[0 .. len_best_moves - 1] *)
Candidates == {best_moves[i] : i \in 0 .. (len_best_moves - 1)}

(* C9: once every root move is searched, the candidates decide_move draws  *)
(* from are exactly the legal columns whose root score is the maximum over *)
(* all legal columns, each held once; each of them can be returned, and    *)
(* the column returned is one of them.                                     *)
C9_BestMoves ==
    pc \in {"pick", "done"} =>
        LET legal == {c \in Columns : has_space(arg_board, c)}
            best == Maximum({root_values[c] : c \in legal})
            argmax == {c \in legal : root_values[c] = best}
        IN  /\ DOMAIN root_values = legal
            /\ value_best_move = best
            /\ Candidates = argmax
            /\ len_best_moves = Cardinality(argmax)
            /\ pc = "pick" => \A c \in argmax : ENABLED Picks(c)
            /\ pc = "done" => chosen # None /\ chosen[1] \in argmax

(* decide_move returned one of several tied best moves, while a legal      *)
(* column scored lower                                                     *)
C9_Witness ==
    /\ pc = "done"
    /\ len_best_moves >= 2
    /\ chosen = Some(best_moves[1])
    /\ \E c \in DOMAIN root_values : root_values[c] < value_best_move

---------------------------------------------------------------------------
(* Further properties of the Board, stated for Spec *)

(* Reading a fingerprint back, column by column: the highest set bit of a  *)
(* column marks its height, the cells below it are the occupied ones, and  *)
(* the bits set among them are the cells of the player to move.            *)
CodeHeight(code, c) ==
    LET col == And(code, ColumnBits(c))
    IN  IF col = {} THEN c * (HEIGHT + 1) ELSE Maximum(col)

CodeMask(code) ==
    UNION {(c * (HEIGHT + 1)) .. (CodeHeight(code, c) - 1) : c \in Columns}

Decode(code) ==
    LET mask == CodeMask(code)
        mover == And(code, mask)
        turn == Cardinality(mask) % 2
    IN  [ players |-> [i \in 0 .. 1 |-> IF i = turn THEN mover ELSE mask \ mover],
          turn |-> turn ]

(* C11: position_code is injective on reachable Boards: the cells of each  *)
(* player and the side to move can be read back from the code alone, so    *)
(* two Boards with the same code have the same cells and the same turn; in *)
(* particular a Board, and the Boards one move after it, all have          *)
(* different codes.                                                        *)
C11_Injective ==
    LET open == {c \in Columns : has_space(board, c)}
    IN  \A code \in {position_code(board)},
           next \in {[c \in open |-> position_code(make_move(board, c))]} :
            /\ Decode(code) = [players |-> board.players, turn |-> board.ply % 2]
            /\ \A c \in open : next[c] # code
            /\ \A c, e \in open : c # e => next[c] # next[e]

(* both players hold cells, one column is full and two are open, after a   *)
(* call of the Board API: the code of the board and of its successors      *)
C11_Witness ==
    /\ ops >= 1
    /\ board.players[0] # {}
    /\ board.players[1] # {}
    /\ \E c \in Columns : Pieces(board, c) = HEIGHT
    /\ Cardinality({c \in Columns : has_space(board, c)}) >= 2
    /\ Decode(position_code(board)).players = board.players

(* C15: make_move on a full column fails its assertion and leaves players, *)
(* heights, moves and ply as they were, while is_legal on a full column,   *)
(* or on a column >= WIDTH, is false and fails nothing; once a make_move   *)
(* has failed the board has no piece in the guard row and every column     *)
(* still holds what it held.                                               *)
C15_FullColumnFails ==
    /\ \A column \in 0 .. WIDTH :
           (column >= WIDTH \/ Pieces(board, column) = HEIGHT) =>
               /\ is_legal(board, column) = FALSE
               /\ make_move_call(board, column) = [board |-> board, panic |-> TRUE]
    /\ pc = "panic" =>
           /\ \E column \in Columns : Pieces(board, column) = HEIGHT
           /\ And(Occupied(board), TOP) = {}
           /\ board.ply = Cardinality(Occupied(board))

(* make_move was called on a full column and panicked; the board is the    *)
(* one before the call, with a column still full and others still legal    *)
C15_Witness ==
    /\ pc = "panic"
    /\ ops >= 1
    /\ \E column \in Columns :
           /\ Pieces(board, column) = HEIGHT
           /\ ~is_legal(board, column)
           /\ make_move_call(board, column).panic
    /\ \E column \in Columns : is_legal(board, column)

(* lines 187-190: current_len for the cell (row, column) of token t along  *)
(* direction d, from the two calls of get_length                           *)
current_len(b, row, column, t, d) ==
    get_length(b, <<row, column>>, d, t)[1]
        + get_length(b, <<row, column>>, <<-d[1], -d[2]>>, t)[1] + 1

(* the number of cells of token t met from (row, column), that cell        *)
(* excluded, walking along d until the first cell that is not t's          *)
RECURSIVE Run(_, _, _, _, _)
Run(b, row, column, t, d) ==
    LET r == row + d[1]
        c == column + d[2]
    IN  IF r \in Rows /\ c \in Columns /\ token_at(b, r, c) = Some(t)
        THEN 1 + Run(b, r, c, t, d)
        ELSE 0

(* C17: for every occupied cell and each of the four directions,           *)
(* current_len is the length of the unbroken run of the cell's token       *)
(* through the cell: the cell and the same-token cells adjoining it on     *)
(* either side, none of those beyond an empty cell.                        *)
C17_ContiguousLen ==
    \A row \in Rows, column \in Columns, i \in 1 .. 4 :
        \A t \in {token_at(board, row, column)} :
            t # None =>
                current_len(board, row, column, t[1], DIRECTION[i])
                    = Run(board, row, column, t[1], DIRECTION[i])
                        + Run(board, row, column, t[1],
                              <<-DIRECTION[i][1], -DIRECTION[i][2]>>) + 1

---------------------------------------------------------------------------
(* Further properties of the search, stated for SpecSearch *)

(* the cell a piece dropped in column c of board b lands on *)
LandingCell(b, c) == Bit(b.heights[c])

(* the columns in which the player to move on b completes four in line,    *)
(* found by the coordinate scan                                            *)
Wins(b) ==
    {c \in Columns : has_space(b, c)
                      /\ HasLine(Or(b.players[b.ply % 2], LandingCell(b, c)))}

(* the columns in which the other player would complete four in line if    *)
(* it were to move on b                                                    *)
Threats(b) ==
    {c \in Columns : has_space(b, c)
                      /\ HasLine(Or(b.players[(b.ply + 1) % 2], LandingCell(b, c)))}

Legal(b) == {c \in Columns : has_space(b, c)}

(* C13: when the deciding player has a legal column that completes four in *)
(* line, a search of depth >= 1 scores that column WIN = 10000, no column  *)
(* scores more, and the column is among the best moves decide_move picks   *)
(* from.                                                                   *)
C13_ImmediateWin ==
    (pc \in {"pick", "done"} /\ depth >= 1) =>
        \A c \in Wins(arg_board) :
            /\ root_values[c] = WIN
            /\ value_best_move = WIN
            /\ \A e \in DOMAIN root_values : root_values[e] <= WIN
            /\ c \in Candidates

(* decide_move, at depth 1 or more, returned a column that completes four  *)
(* in line, while another legal column scored less                         *)
C13_Witness ==
    /\ pc = "done"
    /\ depth >= 1
    /\ chosen # None
    /\ chosen[1] \in Wins(arg_board)
    /\ root_values[chosen[1]] = WIN
    /\ \E e \in DOMAIN root_values : root_values[e] < WIN

(* C14, as claimed: when the other player threatens to complete four in    *)
(* line next turn in exactly one column, decide_move at depth >= 1 returns *)
(* that column.                                                            *)
C14_AlwaysBlocks ==
    (pc = "done" /\ depth >= 1 /\ Cardinality(Threats(arg_board)) = 1) =>
        chosen[1] \in Threats(arg_board)

(* C14, amended: when the other player threatens exactly one column and    *)
(* the deciding player has no column that completes a four of its own,     *)
(* decide_move at depth >= 1 scores every other legal column -WIN; it      *)
(* returns the threatened column and no other when that column scores more *)
(* than -WIN, and when it scores -WIN too every legal column is a best     *)
(* move.                                                                   *)
C14_BlocksUnlessDecided ==
    (/\ pc \in {"pick", "done"}
     /\ depth >= 1
     /\ Cardinality(Threats(arg_board)) = 1
     /\ Wins(arg_board) = {}) =>
        \A block \in Threats(arg_board) :
            /\ \A c \in Legal(arg_board) \ {block} : root_values[c] = -WIN
            /\ root_values[block] > -WIN =>
                   /\ Candidates = {block}
                   /\ pc = "done" => chosen = Some(block)
            /\ root_values[block] = -WIN => Candidates = Legal(arg_board)

(* decide_move returned the one threatened column, which scored more than  *)
(* -WIN while every other legal column scored -WIN                         *)
C14_Witness ==
    /\ pc = "done"
    /\ depth >= 1
    /\ Wins(arg_board) = {}
    /\ Cardinality(Legal(arg_board)) >= 3
    /\ \E block \in Columns :
           /\ Threats(arg_board) = {block}
           /\ chosen = Some(block)
           /\ root_values[block] > -WIN
           /\ \A c \in Legal(arg_board) \ {block} : root_values[c] = -WIN

(* the values the innermost negamax call returns from this state: a table  *)
(* entry's value, the heuristic value of a base case, or the value stored  *)
ReturnValues ==
    IF pc # "search" THEN {}
    ELSE LET f == Head(stack)
             entry == usable_entry(ttable, f.position_code, f.depth)
             win == winner(board)
             is_full == LegalMoves_next(f.moves).item = None
         IN  IF f.at = "store" THEN {f.value}
             ELSE IF f.at = "loop" THEN {}
             ELSE IF ~PastLookup(f) THEN {entry[1].value}
             ELSE IF base_case(f.depth, win, is_full)
                  THEN {heuristic_value(board, f.side, win, is_full)}
                  ELSE {}

(* the frames of the live negamax calls *)
Frames == {stack[i] : i \in 1 .. Len(stack)}

(* C18: negamax never returns Score::MIN.  A call that reaches its loop    *)
(* over the legal moves is on a board with a legal move, and when the loop *)
(* is left the running value is no longer Score::MIN; every value a call   *)
(* returns, every value in the table and every root value lies in          *)
(* -WIN .. WIN, so negating a returned value never saturates.              *)
C18_NoSentinel ==
    /\ \A v \in ReturnValues :
           /\ v \in (-WIN) .. WIN
           /\ saturating_neg(v) = -v
    /\ \A f \in Frames :
           /\ f.at \in {"loop", "store"} => Legal(f.pos) # {}
           /\ f.at = "store" => f.value # Score_MIN
    /\ (pc = "search" /\ Head(stack).at = "loop" /\ Head(stack).value = Score_MIN) =>
           Peekable_next(Head(stack)).item # None
    /\ \A code \in DOMAIN ttable : ttable[code].value \in (-WIN) .. WIN
    /\ \A c \in DOMAIN root_values : root_values[c] \in (-WIN) .. WIN

(* a negamax call with depth left entered on a full board with no winner:  *)
(* it returns the draw value 0 from its base case                          *)
C18_Witness ==
    /\ pc = "search"
    /\ Head(stack).at = "entry"
    /\ Head(stack).depth >= 1
    /\ Legal(board) = {}
    /\ winner(board) = None
    /\ ReturnValues = {0}
    /\ Len(stack) >= 2

(* C19: no fatal failure is reached in a search on a non-terminal board    *)
(* for its current player: no assertion of make_move fails and the 'no     *)
(* legal moves' panic is not reached (pc is never "panic"); every column   *)
(* the loops are about to hand to make_move has space; ply stays within    *)
(* WIDTH * HEIGHT and is below it whenever a move is about to be made; and *)
(* while a PeekableBoard is alive, to be undone when dropped, ply is above *)
(* the ply of the board decide_move was handed, hence above 0.             *)
C19_NoFatalFailure ==
    /\ pc # "panic"
    /\ board.ply <= BOARD_SIZE
    /\ pc = "root" =>
           \A r \in {LegalMoves_next(root_moves)} :
               r.item # None =>
                   /\ has_space(board, r.item[1])
                   /\ board.ply < BOARD_SIZE
    /\ (pc = "search" /\ Head(stack).at = "loop") =>
           \A r \in {Peekable_next(Head(stack))} :
               r.item # None =>
                   /\ has_space(board, r.item[1])
                   /\ board.ply < BOARD_SIZE
    /\ pc = "search" =>
           /\ board.ply = arg_board.ply + Len(stack)
           /\ board.ply > 0
    /\ pc = "pick" => len_best_moves > 0

(* a search three calls deep whose loop has a column left to hand to       *)
(* make_move, after one of its columns was searched and undone, on a board *)
(* with a full column                                                      *)
C19_Witness ==
    /\ pc = "search"
    /\ Len(stack) >= 3
    /\ Head(stack).at = "loop"
    /\ Head(stack).value # Score_MIN
    /\ Peekable_next(Head(stack)).item # None
    /\ has_space(board, Peekable_next(Head(stack)).item[1])
    /\ \E c \in Columns : ~has_space(board, c)

---------------------------------------------------------------------------
(* SpecGame: one AIPlayer inside Game::play (game.rs, main.rs).  The game  *)
(* asks the AIPlayer, makes its move, asks the other player, makes that    *)
(* move, and asks the same AIPlayer again until the game is over.  The     *)
(* AIPlayer, its ttable included, lives from AIPlayer::new to the end of   *)
(* the game; arg_board is the game's board.                                *)

(* the games played from Board::new() before this AIPlayer is first asked *)
GameRoots ==
    {SubSeq(DrawGame, 1, n) : n \in {32, 34, 38}}
        \cup {SecondGame, ThirdGame, FourthGame, FifthGame}

(* a test that forgets the arm for the full board *)
game_over_NoDraw(b) == winner(b) # None

(* game.rs lines 36-40: the game is over on this board *)
game_over(b) == winner(b) # None \/ LegalMoves_next(legal_moves(b)).item = None

InitGame ==
    /\ InitSearch
    /\ arg_board \in {Replay(new, o) : o \in {x \in GameRoots : Playable(new, x)}}

(* game.rs lines 29-40: decide_move has returned; the move is made on the  *)
(* game's board, by a make_move that panics if the column has no space,    *)
(* and the game returns if it is over                                      *)
GameMove ==
    /\ pc = "done"
    /\ LET m == make_move_call(arg_board, chosen[1])
       IN  /\ arg_board' = m.board
           /\ pc' = IF m.panic THEN "panic"
                    ELSE IF game_over(arg_board') THEN "returned" ELSE "reply"
           /\ result' = IF m.panic THEN result ELSE winner(arg_board')
    /\ UNCHANGED <<board, ops, bits, depth, ttable, token, root_moves, root_column,
                   best_moves, len_best_moves, value_best_move, root_values, stack,
                   chosen>>

(* game.rs lines 29-40: the other player returns a legal column           *)
(* (console.rs line 34 lets no other through); the move is made and the    *)
(* game returns if it is over, else the loop comes back to the AIPlayer    *)
GameReply(column) ==
    /\ pc = "reply"
    /\ is_legal(arg_board, column)
    /\ arg_board' = make_move_call(arg_board, column).board
    /\ pc' = IF game_over(arg_board') THEN "returned" ELSE "idle"
    /\ result' = winner(arg_board')
    /\ root_column' = None
    /\ root_values' = EmptyTable
    /\ chosen' = None
    /\ UNCHANGED <<board, ops, bits, depth, ttable, token, root_moves,
                   best_moves, len_best_moves, value_best_move, stack>>

NextGame ==
    \/ NextSearch
    \/ GameMove
    \/ \E column \in Columns : GameReply(column)

SpecGame == InitGame /\ [][NextGame]_vars

(* C12: every decide_move call starts its search with an empty table, so   *)
(* no call finds in the table an entry that an earlier call on the same    *)
(* AIPlayer wrote.                                                         *)
C12_FreshTable == (pc = "idle") => ttable = EmptyTable

(* the Board a fingerprint stands for, with an empty moves history *)
BoardOf(code) ==
    [ moves   |-> new.moves,
      heights |-> [c \in Columns |-> CodeHeight(code, c)],
      players |-> Decode(code).players,
      ply     |-> Cardinality(CodeMask(code)) ]

(* the entry is a sound bound on the full-width minimax value, to the      *)
(* entry's depth and for the side to move, of the position its key stands  *)
(* for                                                                     *)
SoundEntry(code, entry) ==
    \A b \in {BoardOf(code)} :
        \A V \in {Minimax(b, entry.depth, current_player(b))} :
            /\ position_code(b) = code
            /\ entry.flag = Exact => entry.value = V
            /\ entry.flag = Lowerbound => entry.value <= V
            /\ entry.flag = Upperbound => entry.value >= V

(* C16: every entry written to the table, by any search of any decide_move *)
(* call of the game, is a sound bound for its position and depth: an Exact *)
(* value is the minimax value, a Lowerbound value is at most it and an     *)
(* Upperbound value at least it.  The table starts empty and entries       *)
(* change only by being written, so every entry of the table is sound.     *)
C16_SoundEntries ==
    [][\A code \in DOMAIN ttable' :
           (code \notin DOMAIN ttable \/ ttable'[code] # ttable[code]) =>
               SoundEntry(code, ttable'[code])]_vars

(* a later decide_move call is searching: the table holds an entry of each *)
(* flag, one of them written by an earlier call (its position is not past  *)
(* the board now at the root) and one two plies or more deep               *)
C16_Witness ==
    /\ pc = "search"
    /\ \A flag \in {Exact, Lowerbound, Upperbound} :
           \E code \in DOMAIN ttable : ttable[code].flag = flag
    /\ \E code \in DOMAIN ttable : Cardinality(CodeMask(code)) <= arg_board.ply
    /\ \E code \in DOMAIN ttable :
           /\ Cardinality(CodeMask(code)) > arg_board.ply
           /\ ttable[code].depth >= 2

---------------------------------------------------------------------------
(* SpecPlay: Game::play (game.rs) from Board::new() with two players that  *)
(* return legal columns.  board is the game's board, token the token of    *)
(* the loop, chosen the column decide_move returned, ops the number of     *)
(* moves made.                                                             *)

\* the players choose any legal column once at most this many cells are empty
MaxFree == 8

(* the games the players follow move by move until then *)
Scripts == {DrawGame, SecondGame, ThirdGame, FourthGame, FifthGame}

(* the moves made on b so far, oldest first *)
History(b) == [i \in 1 .. b.ply |-> b.moves[i - 1]]

(* the columns a player may return when asked on board b: legal ones, the  *)
(* next move of a game that began as this one while the board is emptier   *)
(* than MaxFree and such a game goes on                                    *)
PlayerMoves(b) ==
    LET follow == {s[b.ply + 1] :
                      s \in {x \in Scripts : /\ Len(x) > b.ply
                                              /\ SubSeq(x, 1, b.ply) = History(b)}}
        legal == {c \in Columns : is_legal(b, c)}
    IN  IF BOARD_SIZE - b.ply <= MaxFree \/ follow = {} THEN legal
        ELSE follow \cap legal

InitPlay ==
    /\ board = new
    /\ ops = 0
    /\ bits = {}
    /\ SearchIdle

(* lines 29-33: the token of the player to move, and the column that       *)
(* player's decide_move returns                                            *)
PlayAsk(column) ==
    /\ pc = "idle"
    /\ column \in PlayerMoves(board)
    /\ token' = current_player(board)
    /\ chosen' = Some(column)
    /\ pc' = "asked"
    /\ UNCHANGED <<arg_board, board, ops, bits, depth, ttable, root_moves, root_column,
                   best_moves, len_best_moves, value_best_move, root_values, stack,
                   result>>

(* lines 34-40: the move is made, by a make_move that panics if the column *)
(* has no space, and play returns if the game is over                      *)
PlayMove ==
    /\ pc = "asked"
    /\ LET m == make_move_call(board, chosen[1])
       IN  /\ board' = m.board
           /\ pc' = IF m.panic THEN "panic"
                    ELSE IF game_over(board') THEN "returned" ELSE "idle"
           /\ result' = IF m.panic THEN result ELSE winner(board')
    /\ ops' = ops + 1
    /\ UNCHANGED <<arg_board, bits, depth, ttable, token, root_moves, root_column,
                   best_moves, len_best_moves, value_best_move, root_values, stack,
                   chosen>>

NextPlay ==
    \/ \E column \in Columns : PlayAsk(column)
    \/ PlayMove

(* the loop of play runs on: each player returns, each move is made *)
SpecPlay == InitPlay /\ [][NextPlay]_vars /\ WF_vars(NextPlay)

(* the cells of token t on board b *)
CellsOf(b, t) == b.players[IF t = Player1 THEN 0 ELSE 1]

(* what holds in every state of a game *)
PlaySafe ==
    /\ pc # "panic"
    /\ board.ply = ops
    /\ ops <= WIDTH * HEIGHT
    /\ pc = "asked" =>
           /\ token = (IF ops % 2 = 0 THEN Player1 ELSE Player2)
           /\ chosen[1] \in Legal(board)
    /\ pc \in {"idle", "asked"} =>
           /\ ~HasLine(board.players[0])
           /\ ~HasLine(board.players[1])
           /\ ops < WIDTH * HEIGHT
           /\ result = None
    /\ pc = "returned" =>
           /\ \A t \in {Player1, Player2} :
                  result = Some(t) <=>
                      /\ HasLine(CellsOf(board, t))
                      /\ ~HasLine(CellsOf(undo_move(board), t))
                      /\ t = token
           /\ result = None =>
                  /\ ops = WIDTH * HEIGHT
                  /\ \A c \in Columns : Pieces(board, c) = HEIGHT
                  /\ ~HasLine(board.players[0])
                  /\ ~HasLine(board.players[1])

(* what holds of every step that asks a player *)
PlayAlternates ==
    (pc = "idle" /\ pc' = "asked") =>
        /\ ops = 0 => token' = Player1
        /\ ops > 0 => token' # token

(* C20: Game::play with players that return legal columns terminates      *)
(* within WIDTH * HEIGHT moves.  The players are asked in turn, Player1     *)
(* first; no move is made once four in line exist; the result is Some(t)   *)
(* exactly when the last move, made by t, completed a four in line of t,   *)
(* and None only on a full board without four in line.                     *)
C20_PlayTerminates ==
    /\ []PlaySafe
    /\ [][PlayAlternates]_vars
    /\ <>(pc = "returned")

(* play returned a draw after WIDTH * HEIGHT moves, the last by Player2 *)
C20_Witness ==
    /\ pc = "returned"
    /\ result = None
    /\ ops = WIDTH * HEIGHT
    /\ token = Player2
    /\ Legal(board) = {}

====
